---- MODULE Spec2Model ----
(***************************************************************************)
(* odisc: the OSC -> OSC/MIDI bridge of src/src/index.ts.                  *)
(*                                                                         *)
(* Strings are sequences of one-character strings, so that endsWith,       *)
(* slice, split, the preset regular expression and the string/number       *)
(* conversions are computed character by character.  A JavaScript number   *)
(* is a fixed-point integer counting tenths (15 stands for 1.5, 10 for 1); *)
(* every numeric literal of the model has at most one fractional digit.    *)
(* A JavaScript value is a record [t, n, s]: t is the typeof tag, n the    *)
(* number (tenths) and s the string.                                       *)
(***************************************************************************)
EXTENDS Integers, Sequences, FiniteSets

\* ------------------------------------------------------------------------
\* JavaScript values
\* ------------------------------------------------------------------------

Undefined == [t |-> "undefined", n |-> 0, s |-> <<>>]

Num(tenths) == [t |-> "number", n |-> tenths, s |-> <<>>]

Str(chars) == [t |-> "string", n |-> 0, s |-> chars]

\* an integer-valued JavaScript number
Int10(i) == Num(i * 10)

\* ToBoolean: undefined, 0 and '' are falsy
Truthy(v) ==
  CASE v.t = "number" -> v.n # 0
    [] v.t = "string" -> v.s # <<>>
    [] OTHER -> FALSE

\* ------------------------------------------------------------------------
\* Characters and conversions
\* ------------------------------------------------------------------------

Digits == <<"0", "1", "2", "3", "4", "5", "6", "7", "8", "9">>

IsDigit(c) == \E i \in 1..10 : Digits[i] = c

DigitVal(c) == (CHOOSE i \in 1..10 : Digits[i] = c) - 1

AllDigits(s) == \A i \in 1..Len(s) : IsDigit(s[i])

RECURSIVE DigitsToNat(_)
DigitsToNat(ds) ==
  IF ds = <<>> THEN 0
  ELSE DigitsToNat(SubSeq(ds, 1, Len(ds) - 1)) * 10 + DigitVal(ds[Len(ds)])

RECURSIVE NatToDigits(_)
NatToDigits(k) ==
  IF k < 10 THEN <<Digits[k + 1]>>
  ELSE Append(NatToDigits(k \div 10), Digits[(k % 10) + 1])

RECURSIVE TrimStart(_)
TrimStart(s) ==
  IF s # <<>> /\ s[1] = " " THEN TrimStart(Tail(s)) ELSE s

RECURSIVE TrimEnd(_)
TrimEnd(s) ==
  IF s # <<>> /\ s[Len(s)] = " " THEN TrimEnd(SubSeq(s, 1, Len(s) - 1)) ELSE s

\* String.prototype.trim
Trim(s) == TrimEnd(TrimStart(s))

NaN == [nan |-> TRUE, n |-> 0]

Finite(tenths) == [nan |-> FALSE, n |-> tenths]

\* the value of  digits [ . digits ]  with at least one digit, else NaN
DecimalLiteral(u) ==
  LET dots == {i \in 1..Len(u) : u[i] = "."}
      d    == IF dots = {} THEN Len(u) + 1
              ELSE CHOOSE i \in dots : \A j \in dots : i <= j
      ip   == SubSeq(u, 1, d - 1)
      fp   == SubSeq(u, d + 1, Len(u))
  IN  IF AllDigits(ip) /\ AllDigits(fp) /\ Len(ip) + Len(fp) > 0
      THEN Finite(DigitsToNat(ip) * 10
                  + (IF fp = <<>> THEN 0 ELSE DigitVal(fp[1])))
      ELSE NaN

\* Number(string): whitespace is trimmed, the empty string is 0, a signed
\* decimal literal is its value, anything else is NaN (no cell of the model
\* holds an exponent, a hexadecimal literal or Infinity)
StringToNumber(s) ==
  LET t == Trim(s)
      signed == t # <<>> /\ t[1] \in {"-", "+"}
      lit == DecimalLiteral(IF signed THEN Tail(t) ELSE t)
  IN  IF t = <<>> THEN Finite(0)
      ELSE IF lit.nan THEN NaN
      ELSE IF t[1] = "-" THEN Finite(0 - lit.n)
      ELSE lit

\* String(number)
NumberToString(tenths) ==
  LET mag  == IF tenths < 0 THEN 0 - tenths ELSE tenths
      body == IF mag % 10 = 0 THEN NatToDigits(mag \div 10)
              ELSE NatToDigits(mag \div 10) \o <<".">> \o <<Digits[(mag % 10) + 1]>>
  IN  IF tenths < 0 THEN <<"-">> \o body ELSE body

\* String(value) for the values the handler converts
JSString(v) ==
  CASE v.t = "number" -> NumberToString(v.n)
    [] v.t = "string" -> v.s
    [] OTHER -> <<"u", "n", "d", "e", "f", "i", "n", "e", "d">>

\* String.prototype.split(' ')
RECURSIVE Split(_)
Split(s) ==
  LET sp == {i \in 1..Len(s) : s[i] = " "}
  IN  IF sp = {} THEN <<s>>
      ELSE LET i == CHOOSE k \in sp : \A j \in sp : k <= j
           IN  <<SubSeq(s, 1, i - 1)>> \o Split(SubSeq(s, i + 1, Len(s)))

\* the longest prefix of u made of digits
RECURSIVE DigitPrefix(_)
DigitPrefix(u) ==
  IF u # <<>> /\ IsDigit(u[1]) THEN <<u[1]>> \o DigitPrefix(Tail(u)) ELSE <<>>

\* parseFloat(string): leading whitespace skipped, the longest prefix that
\* is a signed decimal literal is converted, NaN when there is none
ParseFloat(s) ==
  LET t == TrimStart(s)
      signed == t # <<>> /\ t[1] \in {"-", "+"}
      u  == IF signed THEN Tail(t) ELSE t
      ip == DigitPrefix(u)
      r  == SubSeq(u, Len(ip) + 1, Len(u))
      fp == IF r # <<>> /\ r[1] = "." THEN DigitPrefix(Tail(r)) ELSE <<>>
      mag == DigitsToNat(ip) * 10 + (IF fp = <<>> THEN 0 ELSE DigitVal(fp[1]))
  IN  IF Len(ip) + Len(fp) = 0 THEN NaN
      ELSE IF signed /\ t[1] = "-" THEN Finite(0 - mag)
      ELSE Finite(mag)

\* ------------------------------------------------------------------------
\* loadMappings
\* ------------------------------------------------------------------------

Headers == {"osc_in_address", "osc_in_args", "osc_out_address", "osc_out_args",
            "midi_channel", "midi_type", "midi_note", "midi_velocity",
            "midi_controller", "midi_value", "setlist", "qc_preset_id"}

\* one cell of a row: a numeric-looking cell becomes a number, an empty cell
\* undefined, any other cell stays a string
LoadCell(value) ==
  IF value # <<>> /\ ~StringToNumber(value).nan
  THEN Num(StringToNumber(value).n)
  ELSE IF value = <<>> THEN Undefined ELSE Str(value)

LoadRow(data) == [key \in DOMAIN data |-> LoadCell(data[key])]

loadMappings(file) == [i \in 1..Len(file) |-> LoadRow(file[i])]

\* ------------------------------------------------------------------------
\* sendQuadCortexPreset
\* ------------------------------------------------------------------------

UpperAH == <<"A", "B", "C", "D", "E", "F", "G", "H">>

LowerAH == <<"a", "b", "c", "d", "e", "f", "g", "h">>

IsLetterAH(c) == \E i \in 1..8 : UpperAH[i] = c \/ LowerAH[i] = c

\* presetChar.charCodeAt(0) - 'A'.charCodeAt(0), after toUpperCase
PresetOffset(c) == (CHOOSE i \in 1..8 : UpperAH[i] = c \/ LowerAH[i] = c) - 1

\* /^(\d+)([A-H])$/i
PresetMatch(chars) ==
  /\ Len(chars) >= 2
  /\ AllDigits(SubSeq(chars, 1, Len(chars) - 1))
  /\ IsLetterAH(chars[Len(chars)])

MinBank == 1

MaxBank == 32

PresetsPerBank == 8

MidiNone == [type |-> "none", controller |-> Undefined, value |-> Undefined,
             number |-> Undefined, note |-> Undefined, velocity |-> Undefined,
             channel |-> Undefined]

MidiCC(controller, value, channel) ==
  [MidiNone EXCEPT !.type = "cc", !.controller = controller,
                   !.value = value, !.channel = channel]

MidiProgram(number, channel) ==
  [MidiNone EXCEPT !.type = "program", !.number = number, !.channel = channel]

MidiNote(type, note, velocity, channel) ==
  [MidiNone EXCEPT !.type = type, !.note = note, !.velocity = velocity,
                   !.channel = channel]

\* the program number counted from bank 0
ProgramChangeNumberFromZero(bank, presetOffset) == bank * PresetsPerBank + presetOffset

ProgramChangeNumber(bank, presetOffset) == (bank - 1) * PresetsPerBank + presetOffset

BankInRange(bank) == ~(bank < MinBank \/ bank > MaxBank)

\* the preset sender with the two bank-select messages in the other order
sendQuadCortexPresetSwapped(presetId, channel, setlist) ==
  IF presetId.t # "string" THEN [threw |-> TRUE, sent |-> <<>>]
  ELSE IF ~PresetMatch(presetId.s) THEN [threw |-> FALSE, sent |-> <<>>]
  ELSE LET bank == DigitsToNat(SubSeq(presetId.s, 1, Len(presetId.s) - 1))
           presetOffset == PresetOffset(presetId.s[Len(presetId.s)])
       IN  IF ~BankInRange(bank) THEN [threw |-> FALSE, sent |-> <<>>]
           ELSE [threw |-> FALSE,
                 sent |-> << MidiCC(Int10(32), setlist, channel),
                             MidiCC(Int10(0), Int10(0), channel),
                             MidiProgram(Int10(ProgramChangeNumber(bank, presetOffset)),
                                         channel) >>]

\* the MIDI messages sent, and whether the call threw: String.prototype.match
\* does not exist on a number, so a numeric presetId raises a TypeError
sendQuadCortexPreset(presetId, channel, setlist) ==
  IF presetId.t # "string" THEN [threw |-> TRUE, sent |-> <<>>]
  ELSE IF ~PresetMatch(presetId.s) THEN [threw |-> FALSE, sent |-> <<>>]
  ELSE LET bank == DigitsToNat(SubSeq(presetId.s, 1, Len(presetId.s) - 1))
           presetOffset == PresetOffset(presetId.s[Len(presetId.s)])
       IN  IF ~BankInRange(bank) THEN [threw |-> FALSE, sent |-> <<>>]
           ELSE [threw |-> FALSE,
                 sent |-> << MidiCC(Int10(0), Int10(0), channel),
                             MidiCC(Int10(32), setlist, channel),
                             MidiProgram(Int10(ProgramChangeNumber(bank, presetOffset)),
                                         channel) >>]

\* ------------------------------------------------------------------------
\* handleOscMessage
\* ------------------------------------------------------------------------

SetlistAddress == <<"/", "s", "e", "t", "l", "i", "s", "t">>

\* normalization that leaves the address as received
NormalizeNone(address) == address

\* normalization that strips every trailing slash
RECURSIVE NormalizeAll(_)
NormalizeAll(address) ==
  IF address # <<>> /\ address[Len(address)] = "/"
  THEN NormalizeAll(SubSeq(address, 1, Len(address) - 1))
  ELSE address

\* address.endsWith('/') ? address.slice(0, -1) : address
Normalize(address) ==
  IF address # <<>> /\ address[Len(address)] = "/"
  THEN SubSeq(address, 1, Len(address) - 1)
  ELSE address

\* args[0]
FirstArg(args) == IF Len(args) >= 1 THEN args[1] ELSE Undefined

\* the callback of mappings.find
Matches(m, normalizedAddress, args) ==
  IF ~(m.osc_in_address.t = "string" /\ m.osc_in_address.s = normalizedAddress)
  THEN FALSE
  ELSE IF Truthy(m.osc_in_args)
  THEN LET expectedArgs == Split(JSString(m.osc_in_args))
           receivedArgs == [i \in 1..Len(args) |-> JSString(args[i])]
       IN  IF Len(expectedArgs) # Len(receivedArgs) THEN FALSE
           ELSE \A i \in 1..Len(expectedArgs) : expectedArgs[i] = receivedArgs[i]
  ELSE TRUE

\* find replaced by a best-match search: a matching rule that names its
\* arguments is preferred to a matching wildcard rule
FindMostSpecificFrom(table, i, normalizedAddress, args) ==
  LET hits == {k \in i..Len(table) : Matches(table[k], normalizedAddress, args)}
      named == {k \in hits : Truthy(table[k].osc_in_args)}
      pool == IF named # {} THEN named ELSE hits
  IN  IF hits = {} THEN 0 ELSE CHOOSE k \in pool : \A j \in pool : k <= j

\* Array.prototype.find: the index of the first element from i on that
\* satisfies the callback, 0 when there is none
RECURSIVE FindFrom(_, _, _, _)
FindFrom(table, i, normalizedAddress, args) ==
  IF i > Len(table) THEN 0
  ELSE IF Matches(table[i], normalizedAddress, args) THEN i
  ELSE FindFrom(table, i + 1, normalizedAddress, args)

Find(table, normalizedAddress, args) == FindFrom(table, 1, normalizedAddress, args)

FloatArg(tenths) == [f |-> TRUE, v |-> Num(tenths)]

RawArg(v) == [f |-> FALSE, v |-> v]

\* the override tokens followed by the received arguments
FinalArgsAppend(mapping, args) ==
  LET forwarded == [i \in 1..Len(args) |->
                      IF args[i].t = "number" THEN FloatArg(args[i].n)
                      ELSE RawArg(args[i])]
  IN  IF mapping.osc_out_args.t # "undefined" /\ Trim(JSString(mapping.osc_out_args)) # <<>>
      THEN LET tokens == Split(JSString(mapping.osc_out_args))
           IN  [i \in 1..Len(tokens) |->
                  IF ParseFloat(tokens[i]).nan THEN RawArg(Str(tokens[i]))
                  ELSE FloatArg(ParseFloat(tokens[i]).n)] \o forwarded
      ELSE forwarded

\* the argument list of the outbound OSC message
FinalArgs(mapping, args) ==
  IF mapping.osc_out_args.t # "undefined" /\ Trim(JSString(mapping.osc_out_args)) # <<>>
  THEN LET tokens == Split(JSString(mapping.osc_out_args))
       IN  [i \in 1..Len(tokens) |->
              IF ParseFloat(tokens[i]).nan THEN RawArg(Str(tokens[i]))
              ELSE FloatArg(ParseFloat(tokens[i]).n)]
  ELSE [i \in 1..Len(args) |->
          IF args[i].t = "number" THEN FloatArg(args[i].n) ELSE RawArg(args[i])]

\* the OSC leg used only as a fallback for rules without a MIDI type
OscLegUnlessMidi(mapping, args) ==
  IF Truthy(mapping.osc_out_address) /\ ~Truthy(mapping.midi_type)
  THEN << [address |-> mapping.osc_out_address, args |-> FinalArgs(mapping, args)] >>
  ELSE <<>>

\* the OSC output leg: the messages handed to oscClient.send
OscLeg(mapping, args) ==
  IF Truthy(mapping.osc_out_address)
  THEN << [address |-> mapping.osc_out_address, args |-> FinalArgs(mapping, args)] >>
  ELSE <<>>

IsStr(v, name) == v.t = "string" /\ v.s = name

NOTE_ON == <<"n", "o", "t", "e", "_", "o", "n">>

NOTE_OFF == <<"n", "o", "t", "e", "_", "o", "f", "f">>

CC == <<"c", "c">>

PC == <<"p", "c">>

QC_PRESET == <<"q", "c", "_", "p", "r", "e", "s", "e", "t">>

\* the value chosen by truthiness: midi_value 0 falls back to the argument
MidiValueTruthy(mapping, args) ==
  IF Truthy(mapping.midi_value) THEN mapping.midi_value
  ELSE IF FirstArg(args).t = "number" THEN FirstArg(args) ELSE Int10(0)

\* mapping.midi_value, else the first argument when it is a number, else 0
MidiValue(mapping, args) ==
  IF mapping.midi_value.t # "undefined" THEN mapping.midi_value
  ELSE IF FirstArg(args).t = "number" THEN FirstArg(args) ELSE Int10(0)

\* the MIDI leg entered whether or not a device was opened
MidiLegActiveNoDevice(mapping, midiDevice) ==
  Truthy(mapping.midi_type) /\ mapping.midi_channel.t # "undefined"

\* the MIDI leg guarded by truthiness: channel 0 counts as absent
MidiLegActiveTruthy(mapping, midiDevice) ==
  midiDevice /\ Truthy(mapping.midi_type) /\ Truthy(mapping.midi_channel)

\* midiOut && mapping.midi_type && mapping.midi_channel !== undefined
MidiLegActive(mapping, midiDevice) ==
  midiDevice /\ Truthy(mapping.midi_type) /\ mapping.midi_channel.t # "undefined"

\* the note check by truthiness: note 0 or velocity 0 counts as missing
NoteDefinedTruthy(mapping) ==
  Truthy(mapping.midi_note) /\ Truthy(mapping.midi_velocity)

\* mapping.midi_note !== undefined && mapping.midi_velocity !== undefined
NoteDefined(mapping) ==
  mapping.midi_note.t # "undefined" /\ mapping.midi_velocity.t # "undefined"

\* the setlist chosen by truthiness: a rule's setlist 0 counts as absent
ResolvedSetlistTruthy(mapping, setlistNow) ==
  IF Truthy(mapping.setlist) THEN mapping.setlist ELSE setlistNow

\* the setlist of a rule without its own, read as the startup default
ResolvedSetlistDefault(mapping, setlistNow) ==
  IF mapping.setlist.t # "undefined" THEN mapping.setlist ELSE Int10(0)

\* mapping.setlist !== undefined ? mapping.setlist : currentSetlist
ResolvedSetlist(mapping, setlistNow) ==
  IF mapping.setlist.t # "undefined" THEN mapping.setlist ELSE setlistNow

\* the MIDI output leg: the messages handed to midiOut.send, and whether
\* the leg threw
MidiLeg(mapping, args, setlistNow, midiDevice) ==
  LET channel == mapping.midi_channel
      quiet   == [threw |-> FALSE, sent |-> <<>>]
  IN  IF ~MidiLegActive(mapping, midiDevice)
      THEN quiet
      ELSE CASE IsStr(mapping.midi_type, NOTE_ON) ->
                  IF NoteDefined(mapping)
                  THEN [threw |-> FALSE,
                        sent |-> <<MidiNote("noteon", mapping.midi_note,
                                            mapping.midi_velocity, channel)>>]
                  ELSE quiet
             [] IsStr(mapping.midi_type, NOTE_OFF) ->
                  IF NoteDefined(mapping)
                  THEN [threw |-> FALSE,
                        sent |-> <<MidiNote("noteoff", mapping.midi_note,
                                            mapping.midi_velocity, channel)>>]
                  ELSE quiet
             [] IsStr(mapping.midi_type, CC) ->
                  IF mapping.midi_controller.t # "undefined"
                  THEN [threw |-> FALSE,
                        sent |-> <<MidiCC(mapping.midi_controller,
                                          MidiValue(mapping, args), channel)>>]
                  ELSE quiet
             [] IsStr(mapping.midi_type, PC) ->
                  [threw |-> FALSE,
                   sent |-> <<MidiProgram(MidiValue(mapping, args), channel)>>]
             [] IsStr(mapping.midi_type, QC_PRESET) ->
                  IF Truthy(mapping.qc_preset_id)
                  THEN sendQuadCortexPreset(mapping.qc_preset_id, channel,
                                            ResolvedSetlist(mapping, setlistNow))
                  ELSE quiet
             [] OTHER -> quiet

\* dispatch that relays a message no rule matches to its own address
DispatchForwardUnmatched(table, normalizedAddress, args, setlistNow, midiDevice) ==
  LET k == Find(table, normalizedAddress, args)
  IN  IF k = 0
      THEN [currentSetlist |-> setlistNow, mappings |-> table, rule |-> 0,
            osc |-> << [address |-> Str(normalizedAddress),
                        args |-> [i \in 1..Len(args) |-> RawArg(args[i])]] >>,
            midi |-> <<>>, threw |-> FALSE]
      ELSE LET mapping == table[k]
               leg == MidiLeg(mapping, args, setlistNow, midiDevice)
           IN  [currentSetlist |-> setlistNow, mappings |-> table, rule |-> k,
                osc |-> OscLeg(mapping, args),
                midi |-> leg.sent, threw |-> leg.threw]

\* dispatch that acts on every matching rule, in table order
DispatchEveryMatch(table, normalizedAddress, args, setlistNow, midiDevice) ==
  LET k == Find(table, normalizedAddress, args)
      osc[i \in 0..Len(table)] ==
        IF i = 0 THEN <<>>
        ELSE osc[i - 1] \o (IF Matches(table[i], normalizedAddress, args)
                            THEN OscLeg(table[i], args) ELSE <<>>)
      midi[i \in 0..Len(table)] ==
        IF i = 0 THEN [threw |-> FALSE, sent |-> <<>>]
        ELSE IF Matches(table[i], normalizedAddress, args) /\ ~midi[i - 1].threw
        THEN LET leg == MidiLeg(table[i], args, setlistNow, midiDevice)
             IN  [threw |-> leg.threw, sent |-> midi[i - 1].sent \o leg.sent]
        ELSE midi[i - 1]
  IN  [currentSetlist |-> setlistNow, mappings |-> table, rule |-> k,
       osc |-> osc[Len(table)], midi |-> midi[Len(table)].sent,
       threw |-> midi[Len(table)].threw]

\* dispatch that writes the setlist it resolved into the rule acted on
DispatchWriteSetlist(table, normalizedAddress, args, setlistNow, midiDevice) ==
  LET k == Find(table, normalizedAddress, args)
  IN  IF k = 0
      THEN [currentSetlist |-> setlistNow, mappings |-> table, rule |-> 0,
            osc |-> <<>>, midi |-> <<>>, threw |-> FALSE]
      ELSE LET mapping == table[k]
               leg == MidiLeg(mapping, args, setlistNow, midiDevice)
           IN  [currentSetlist |-> setlistNow,
                mappings |-> [table EXCEPT
                                ![k].setlist = ResolvedSetlist(mapping, setlistNow)],
                rule |-> k, osc |-> OscLeg(mapping, args),
                midi |-> leg.sent, threw |-> leg.threw]

\* dispatch that skips a rule whose own setlist is not the current one
DispatchBySetlist(table, normalizedAddress, args, setlistNow, midiDevice) ==
  LET found == Find(table, normalizedAddress, args)
      k == IF found # 0 /\ table[found].setlist.t # "undefined"
                        /\ table[found].setlist # setlistNow
           THEN 0 ELSE found
  IN  IF k = 0
      THEN [currentSetlist |-> setlistNow, mappings |-> table, rule |-> 0,
            osc |-> <<>>, midi |-> <<>>, threw |-> FALSE]
      ELSE LET mapping == table[k]
               leg == MidiLeg(mapping, args, setlistNow, midiDevice)
           IN  [currentSetlist |-> setlistNow, mappings |-> table, rule |-> k,
                osc |-> OscLeg(mapping, args),
                midi |-> leg.sent, threw |-> leg.threw]

\* dispatch that drops the OSC message when a configured MIDI leg sends
\* nothing
DispatchAllOrNothing(table, normalizedAddress, args, setlistNow, midiDevice) ==
  LET k == Find(table, normalizedAddress, args)
  IN  IF k = 0
      THEN [currentSetlist |-> setlistNow, mappings |-> table, rule |-> 0, osc |-> <<>>,
            midi |-> <<>>, threw |-> FALSE]
      ELSE LET mapping == table[k]
               leg == MidiLeg(mapping, args, setlistNow, midiDevice)
           IN  [currentSetlist |-> setlistNow, mappings |-> table, rule |-> k,
                osc |-> IF Truthy(mapping.midi_type) /\ leg.sent = <<>>
                        THEN <<>> ELSE OscLeg(mapping, args),
                midi |-> leg.sent, threw |-> leg.threw]

\* dispatch that stores the setlist of the resolved rule as the current one
DispatchStoreSetlist(table, normalizedAddress, args, setlistNow, midiDevice) ==
  LET k == Find(table, normalizedAddress, args)
  IN  IF k = 0
      THEN [currentSetlist |-> setlistNow, mappings |-> table, rule |-> 0, osc |-> <<>>,
            midi |-> <<>>, threw |-> FALSE]
      ELSE LET mapping == table[k]
               leg == MidiLeg(mapping, args, setlistNow, midiDevice)
           IN  [currentSetlist |-> IF mapping.setlist.t # "undefined"
                                   THEN mapping.setlist ELSE setlistNow,
                mappings |-> table, rule |-> k, osc |-> OscLeg(mapping, args),
                midi |-> leg.sent, threw |-> leg.threw]

\* handleOscMessage after the /setlist interception: resolve the rule and
\* run its two output legs
Dispatch(table, normalizedAddress, args, setlistNow, midiDevice) ==
  LET k == Find(table, normalizedAddress, args)
  IN  IF k = 0
      THEN [currentSetlist |-> setlistNow, mappings |-> table, rule |-> 0, osc |-> <<>>,
            midi |-> <<>>, threw |-> FALSE]
      ELSE LET mapping == table[k]
               leg == MidiLeg(mapping, args, setlistNow, midiDevice)
           IN  [currentSetlist |-> setlistNow, mappings |-> table, rule |-> k,
                osc |-> OscLeg(mapping, args),
                midi |-> leg.sent, threw |-> leg.threw]

\* the handler without the return that ends the /setlist branch
handleOscMessageFallThrough(msg, table, setlistNow, midiDevice) ==
  LET normalizedAddress == Normalize(msg.address)
      updated == IF normalizedAddress = SetlistAddress /\ FirstArg(msg.args).t = "number"
                 THEN FirstArg(msg.args) ELSE setlistNow
  IN  [Dispatch(table, normalizedAddress, msg.args, setlistNow, midiDevice)
         EXCEPT !.currentSetlist = updated]

\* the handler storing 0 when the /setlist argument is not a number
handleOscMessageCoerce(msg, table, setlistNow, midiDevice) ==
  LET normalizedAddress == Normalize(msg.address)
  IN  IF normalizedAddress = SetlistAddress
      THEN [currentSetlist |-> IF FirstArg(msg.args).t = "number"
                               THEN FirstArg(msg.args) ELSE Int10(0),
            mappings |-> table, rule |-> 0, osc |-> <<>>, midi |-> <<>>, threw |-> FALSE]
      ELSE Dispatch(table, normalizedAddress, msg.args, setlistNow, midiDevice)

\* one call of handleOscMessage on table, currentSetlist and midiOut:
\* the new currentSetlist, the index of the rule acted on (0: none), the
\* OSC and MIDI messages sent, and whether the call threw
handleOscMessage(msg, table, setlistNow, midiDevice) ==
  LET address == msg.address
      args    == msg.args
      normalizedAddress == Normalize(address)
      idle    == [currentSetlist |-> setlistNow, mappings |-> table, rule |-> 0, osc |-> <<>>,
                  midi |-> <<>>, threw |-> FALSE]
  IN  IF normalizedAddress = SetlistAddress
      THEN IF FirstArg(args).t = "number"
           THEN [idle EXCEPT !.currentSetlist = FirstArg(args)]
           ELSE idle
      ELSE Dispatch(table, normalizedAddress, args, setlistNow, midiDevice)

\* ------------------------------------------------------------------------
\* Inputs: mapping files and inbound messages
\* ------------------------------------------------------------------------

\* the longest mapping table loaded
MaxRows == 2

\* the number of /setlist messages a behaviour records
MaxLog == 2

\* the largest bank number written into a preset file
MaxBankTried == 34

A == <<"/", "a">>

ASlash == <<"/", "a", "/">>

ASlashSlash == <<"/", "a", "/", "/">>

SetlistSlash == <<"/", "s", "e", "t", "l", "i", "s", "t", "/">>

OutAddress == <<"/", "o">>

\* a row of mappings.csv with every cell empty
Blank == [h \in Headers |-> <<>>]

RowZeroArgs ==
  [Blank EXCEPT !.osc_in_address = A, !.osc_in_args = <<"0">>,
                !.osc_out_address = OutAddress]

RowWild ==
  [Blank EXCEPT !.osc_in_address = A, !.osc_out_address = OutAddress,
                !.midi_type = CC, !.midi_channel = <<"1">>,
                !.midi_controller = <<"7">>]

RowOne ==
  [Blank EXCEPT !.osc_in_address = A, !.osc_in_args = <<"1">>,
                !.midi_type = NOTE_ON, !.midi_channel = <<"0">>,
                !.midi_note = <<"6", "0">>, !.midi_velocity = <<"1", "0", "0">>]

RowPair ==
  [Blank EXCEPT !.osc_in_address = A, !.osc_in_args = <<"1", ".", "5", " ", "x">>,
                !.osc_out_address = OutAddress, !.osc_out_args = <<"2", " ", "y">>,
                !.midi_type = PC, !.midi_channel = <<"1">>]

RowSetlist ==
  [Blank EXCEPT !.osc_in_address = SetlistAddress, !.osc_out_address = OutAddress,
                !.midi_type = PC, !.midi_channel = <<"1">>, !.midi_value = <<"5">>]

RowPreset ==
  [Blank EXCEPT !.osc_in_address = A, !.osc_out_address = OutAddress,
                !.midi_type = QC_PRESET, !.midi_channel = <<"1">>,
                !.qc_preset_id = <<"2", "B">>]

RowDigits ==
  [Blank EXCEPT !.osc_in_address = A, !.osc_out_address = OutAddress,
                !.midi_type = QC_PRESET, !.midi_channel = <<"1">>,
                !.qc_preset_id = <<"1", "2">>]

RowPresetOwn ==
  [Blank EXCEPT !.osc_in_address = A, !.osc_in_args = <<"x">>,
                !.midi_type = QC_PRESET, !.midi_channel = <<"1">>,
                !.qc_preset_id = <<"1", "A">>, !.setlist = <<"3">>]

RowSlash ==
  [Blank EXCEPT !.osc_in_address = ASlash, !.osc_out_address = OutAddress]

\* every table of at most MaxRows distinct rows of rows, in every order
Tables(rows) ==
  UNION {{f \in [1..k -> rows] : \A i, j \in 1..k : f[i] = f[j] => i = j} :
         k \in 0..MaxRows}

ArgLists == { <<>>, <<Int10(1)>>, <<Str(<<"x">>)>>, <<Num(15), Str(<<"x">>)>> }

\* the session specification: preset rules and a rule on the control
\* address, under every message on /a and on the control address
Files == Tables({RowSetlist, RowPreset, RowPresetOwn})

Messages == [address : {A, SetlistAddress, SetlistSlash}, args : ArgLists]

\* the resolution specification: every table, under every message on /a
\* with zero, one or two trailing slashes
ResolveFiles ==
  Tables({RowZeroArgs, RowWild, RowOne, RowPair, RowSlash, RowPreset,
          RowPresetOwn, RowDigits})

ResolveMessages == [address : {A, ASlash, ASlashSlash}, args : ArgLists]

\* the preset specification: one qc_preset rule on /a per file, its
\* identifier ranging over every bank 0..MaxBankTried with every letter in
\* both cases and over malformed identifiers
PresetRow(id, channel, setlist) ==
  [Blank EXCEPT !.osc_in_address = A, !.midi_type = QC_PRESET,
                !.midi_channel = channel, !.qc_preset_id = id,
                !.setlist = setlist]

Letters == {UpperAH[i] : i \in 1..8} \cup {LowerAH[i] : i \in 1..8}

PresetIds ==
  {NatToDigits(b) \o <<l>> : b \in 0..MaxBankTried, l \in Letters}
  \cup { <<"0", "1", "A">>, <<"0", "3", "2", "h">>, <<"1", "0", "0", "A">>,
         <<"1", "I">>, <<"1", "i">>, <<"a", "b", "c">>, <<"A">>,
         <<"1", "A", "1">>, <<"1", "2">>, <<"0">> }

PresetFiles ==
  { <<PresetRow(id, <<"1">>, <<>>)>> : id \in PresetIds }
  \cup { <<PresetRow(id, ch, sl)>> :
            id \in { <<"2", "B">>, <<"3", "2", "h">>, <<"3", "3", "A">> },
            ch \in { <<"0">>, <<"1">> },
            sl \in { <<"0">>, <<"3">> } }

PresetMessages == [address : {A, SetlistAddress}, args : { <<>>, <<Int10(2)>> }]

\* the legs specification: one rule on /a per file, its MIDI fields, its
\* preset identifier and its OSC output address ranging over every
\* combination of filled and empty cells
LegRow(type, channel, note, velocity, controller, value, out, preset) ==
  [Blank EXCEPT !.osc_in_address = A, !.midi_type = type,
                !.midi_channel = channel, !.midi_note = note,
                !.midi_velocity = velocity, !.midi_controller = controller,
                !.midi_value = value, !.osc_out_address = out,
                !.qc_preset_id = preset]

LegRows ==
  { LegRow(type, channel, note, velocity, controller, value, out, preset) :
      type \in { <<>>, NOTE_ON, NOTE_OFF, CC, PC, QC_PRESET },
      channel \in { <<>>, <<"0">>, <<"1">> },
      note \in { <<>>, <<"0">> },
      velocity \in { <<>>, <<"9">> },
      controller \in { <<>>, <<"0">> },
      value \in { <<>>, <<"0">>, <<"5">> },
      out \in { <<>>, OutAddress },
      preset \in { <<>>, <<"2", "B">>, <<"1", "2">>, <<"3", "3", "A">> } }

LegFiles == { <<row>> : row \in LegRows }

LegMessages == [address : {A}, args : ArgLists]

\* the OSC specification: one rule on /a with an OSC output per file, its
\* osc_out_args cell empty, blank, or holding numeric, textual and mixed
\* tokens, with and without a MIDI leg
OscRow(outArgs, type) ==
  [Blank EXCEPT !.osc_in_address = A, !.osc_out_address = OutAddress,
                !.osc_out_args = outArgs, !.midi_type = type,
                !.midi_channel = <<"1">>]

OutArgCells ==
  { <<>>, <<" ">>, <<"0">>, <<"1", ".", "5">>, <<"x">>, <<"2", " ", "y">>,
    <<"y", " ", " ", "2">>, <<"3", "r", "d", " ", "-", "1">> }

OscFiles == { <<OscRow(outArgs, type)>> : outArgs \in OutArgCells, type \in { <<>>, PC } }

OscMessages == [address : {A, ASlash}, args : ArgLists]

\* the refresh specification: the headers-only file main() creates and
\* two files of two rules that share no row, edited while the process runs
RefreshFiles ==
  { <<>>, <<RowOne, RowWild>>, <<RowPair, RowZeroArgs>> }

RefreshMessages == [address : {A}, args : ArgLists]

\* ------------------------------------------------------------------------
\* The process
\* ------------------------------------------------------------------------

VARIABLES
  csvFile,        \* the rows of mappings.csv on disk
  csvReadable,    \* whether reading mappings.csv succeeds
  midiOutputs,    \* whether getOutputs() lists a device
  pc,             \* "start", "running", "exited", "failed", "crashed"
  mappings,       \* the table in effect
  currentSetlist,
  oscServer,      \* "none", "open", "closed"
  oscClient,      \* "none", "open", "closed"
  midiOut,        \* "null", "open", "closed"
  lastMsg,        \* <<>> or <<the message handled last>>
  ruleIndex,      \* index of the rule acted on for lastMsg, 0 when none
  oscSent,        \* OSC messages sent for lastMsg
  midiSent,       \* MIDI messages sent for lastMsg
  threw,          \* whether the handler raised an exception on lastMsg
  setlistLog,     \* argument lists of the /setlist messages received so far
  results,        \* the rows loadMappings has parsed so far
  csvData,        \* the rows of the table shown in the window
  csvError        \* whether the window shows a load error

vars == <<csvFile, csvReadable, midiOutputs, pc, mappings, currentSetlist,
          oscServer, oscClient, midiOut, lastMsg, ruleIndex, oscSent,
          midiSent, threw, setlistLog, results, csvData, csvError>>

InitWith(files) ==
  /\ csvFile \in files
  /\ csvReadable \in BOOLEAN
  /\ midiOutputs \in BOOLEAN
  /\ pc = "start"
  /\ mappings = <<>>
  /\ currentSetlist = Int10(0)
  /\ oscServer = "none"
  /\ oscClient = "none"
  /\ midiOut = "null"
  /\ lastMsg = <<>>
  /\ ruleIndex = 0
  /\ oscSent = <<>>
  /\ midiSent = <<>>
  /\ threw = FALSE
  /\ setlistLog = <<>>
  /\ results = <<>>
  /\ csvData = <<>>
  /\ csvError = FALSE

Init == InitWith(Files)

\* main(): load the table, open the server, the client and the MIDI output;
\* a failed load exits with status 1, a failed MIDI constructor is caught
\* and leaves midiOut null
Main ==
  /\ pc = "start"
  /\ IF csvReadable
     THEN /\ mappings' = loadMappings(csvFile)
          /\ oscServer' = "open"
          /\ oscClient' = "open"
          /\ midiOut' \in (IF midiOutputs THEN {"open", "null"} ELSE {"null"})
          /\ pc' = "running"
     ELSE /\ pc' = "failed"
          /\ UNCHANGED <<mappings, oscServer, oscClient, midiOut>>
  /\ UNCHANGED <<csvFile, csvReadable, midiOutputs, currentSetlist, lastMsg,
                 ruleIndex, oscSent, midiSent, threw, setlistLog, results,
                 csvData, csvError>>

IsSetlistRaw(msg) == msg.address \in {SetlistAddress, SetlistSlash}

\* oscServer.on('message'): one inbound message is handled to completion;
\* an exception escaping the handler is uncaught and ends the process
OnMessage(msg) ==
  /\ pc = "running"
  /\ IsSetlistRaw(msg) => Len(setlistLog) < MaxLog
  /\ LET r == handleOscMessage(msg, mappings, currentSetlist, midiOut = "open")
     IN  /\ mappings' = r.mappings
         /\ currentSetlist' = r.currentSetlist
         /\ ruleIndex' = r.rule
         /\ oscSent' = r.osc
         /\ midiSent' = r.midi
         /\ threw' = r.threw
         /\ pc' = IF r.threw THEN "crashed" ELSE "running"
  /\ lastMsg' = <<msg>>
  /\ setlistLog' = IF IsSetlistRaw(msg) THEN Append(setlistLog, msg.args)
                   ELSE setlistLog
  /\ UNCHANGED <<csvFile, csvReadable, midiOutputs, oscServer, oscClient,
                 midiOut, results, csvData, csvError>>

\* process.on('SIGINT')
Sigint ==
  /\ pc = "running"
  /\ oscServer' = "closed"
  /\ midiOut' = IF midiOut = "open" THEN "closed" ELSE midiOut
  /\ pc' = "exited"
  /\ UNCHANGED <<csvFile, csvReadable, midiOutputs, mappings, currentSetlist,
                 oscClient, lastMsg, ruleIndex, oscSent, midiSent, threw,
                 setlistLog, results, csvData, csvError>>

Receive == \E msg \in Messages : OnMessage(msg)

Next == Main \/ Receive \/ Sigint

Spec == Init /\ [][Next]_vars

InitResolve == InitWith(ResolveFiles)

ReceiveResolve == \E msg \in ResolveMessages : OnMessage(msg)

NextResolve == Main \/ ReceiveResolve \/ Sigint

SpecResolve == InitResolve /\ [][NextResolve]_vars

InitPreset == InitWith(PresetFiles)

ReceivePreset == \E msg \in PresetMessages : OnMessage(msg)

NextPreset == Main \/ ReceivePreset \/ Sigint

SpecPreset == InitPreset /\ [][NextPreset]_vars

\* the 'data' handler pushing its row into the table in effect
OnDataMappingsPush(table, data) == Append(table, LoadRow(data))

\* the table in effect after a 'data' event: the handler pushes the row
\* into its local results and leaves mappings alone
OnDataMappings(table, data) == table

\* main() up to the await: loadMappings opens the stream; an unreadable
\* file rejects and main exits with status 1
MainLoad ==
  /\ pc = "start"
  /\ IF csvReadable
     THEN pc' = "loading" /\ results' = <<>>
     ELSE pc' = "failed" /\ UNCHANGED results
  /\ UNCHANGED <<csvFile, csvReadable, midiOutputs, mappings, currentSetlist,
                 oscServer, oscClient, midiOut, lastMsg, ruleIndex, oscSent,
                 midiSent, threw, setlistLog, csvData, csvError>>

\* .on('data'): the next row of the file is coerced and pushed
OnData ==
  /\ pc = "loading"
  /\ Len(results) < Len(csvFile)
  /\ results' = Append(results, LoadRow(csvFile[Len(results) + 1]))
  /\ mappings' = OnDataMappings(mappings, csvFile[Len(results) + 1])
  /\ UNCHANGED <<csvFile, csvReadable, midiOutputs, pc, currentSetlist,
                 oscServer, oscClient, midiOut, lastMsg, ruleIndex, oscSent,
                 midiSent, threw, setlistLog, csvData, csvError>>

\* .on('end') and the rest of main(): the promise resolves with results,
\* mappings is assigned, then the server, the client and the MIDI output
\* are opened
OnEnd ==
  /\ pc = "loading"
  /\ Len(results) = Len(csvFile)
  /\ mappings' = results
  /\ oscServer' = "open"
  /\ oscClient' = "open"
  /\ midiOut' \in (IF midiOutputs THEN {"open", "null"} ELSE {"null"})
  /\ pc' = "running"
  /\ UNCHANGED <<csvFile, csvReadable, midiOutputs, currentSetlist, lastMsg,
                 ruleIndex, oscSent, midiSent, threw, setlistLog, results,
                 csvData, csvError>>

\* the operator saves another mappings.csv, or makes it unreadable, while
\* the process runs
EditFile ==
  /\ pc = "running"
  /\ csvFile' \in RefreshFiles
  /\ csvReadable' \in BOOLEAN
  /\ <<csvFile', csvReadable'>> # <<csvFile, csvReadable>>
  /\ UNCHANGED <<midiOutputs, pc, mappings, currentSetlist, oscServer,
                 oscClient, midiOut, lastMsg, ruleIndex, oscSent, midiSent,
                 threw, setlistLog, results, csvData, csvError>>

\* parseCsv: the cells of every row, trimmed (no cell of the model holds a
\* comma or a quote)
parseCsv(file) ==
  [i \in 1..Len(file) |-> [h \in DOMAIN file[i] |-> Trim(file[i][h])]]

\* loadCsvFile, behind the "Refresh Mappings" button: the file is read
\* again and shown in the window; a failed read sets csvError and keeps
\* the rows shown; the dispatcher is not told
loadCsvFile ==
  /\ pc \in {"running", "crashed", "exited"}
  /\ IF csvReadable
     THEN csvData' = parseCsv(csvFile) /\ csvError' = FALSE
     ELSE csvError' = TRUE /\ UNCHANGED csvData
  /\ <<csvData', csvError'>> # <<csvData, csvError>>
  /\ UNCHANGED <<csvFile, csvReadable, midiOutputs, pc, mappings,
                 currentSetlist, oscServer, oscClient, midiOut, lastMsg,
                 ruleIndex, oscSent, midiSent, threw, setlistLog, results>>

InitRefresh == InitWith(RefreshFiles)

ReceiveRefresh == \E msg \in RefreshMessages : OnMessage(msg)

NextRefresh ==
  MainLoad \/ OnData \/ OnEnd \/ ReceiveRefresh \/ Sigint \/ EditFile \/ loadCsvFile

SpecRefresh == InitRefresh /\ [][NextRefresh]_vars

InitLegs == InitWith(LegFiles)

ReceiveLegs == \E msg \in LegMessages : OnMessage(msg)

NextLegs == Main \/ ReceiveLegs \/ Sigint

SpecLegs == InitLegs /\ [][NextLegs]_vars

InitOsc == InitWith(OscFiles)

ReceiveOsc == \E msg \in OscMessages : OnMessage(msg)

NextOsc == Main \/ ReceiveOsc \/ Sigint

SpecOsc == InitOsc /\ [][NextOsc]_vars

\* ------------------------------------------------------------------------
\* Properties
\* ------------------------------------------------------------------------

Handled == lastMsg # <<>>

Msg == lastMsg[1]

EndsWithSlash(address) == address # <<>> /\ address[Len(address)] = "/"

\* the rows of the table in effect that satisfy the callback of find
MatchingRules ==
  {i \in 1..Len(mappings) :
     Matches(mappings[i], Normalize(Msg.address), Msg.args)}

\* C1: the rule acted on is the matching rule with the lowest table index
\* (none when no rule matches), whichever rule has the more specific
\* osc_in_args
FirstMatchPrecedence ==
  Handled /\ ~IsSetlistRaw(Msg) =>
    IF MatchingRules = {} THEN ruleIndex = 0
    ELSE /\ ruleIndex \in MatchingRules
         /\ \A j \in MatchingRules : ruleIndex <= j

\* C1 witness: a wildcard rule in row 1 was acted on although row 2 matches
\* too and names the received arguments
FirstMatchWitness ==
  /\ Handled
  /\ Len(mappings) = 2
  /\ MatchingRules = {1, 2}
  /\ ~Truthy(mappings[1].osc_in_args)
  /\ Truthy(mappings[2].osc_in_args)
  /\ ruleIndex = 1

\* the tokens of an osc_in_args cell equal the string forms of the
\* received arguments, position by position and in number
TokensEqual(cell, args) ==
  /\ Len(Split(cell)) = Len(args)
  /\ \A i \in 1..Len(args) : Split(cell)[i] = JSString(args[i])

\* the match condition as specified, on a row of the file
MatchesAsSpecified(row, address, args) ==
  /\ row.osc_in_address = address
  /\ \/ Trim(row.osc_in_args) = <<>>
     \/ TokensEqual(row.osc_in_args, args)

\* C2: a loaded rule matches a message iff its address equals the
\* normalized address and its osc_in_args cell is blank or equals the
\* received arguments token by token
MatchCondition ==
  Handled /\ ~IsSetlistRaw(Msg) =>
    \A i \in 1..Len(mappings) :
      (i \in MatchingRules) <=>
        MatchesAsSpecified(csvFile[i], Normalize(Msg.address), Msg.args)

\* C3: a message on the control address resolves no rule and sends nothing
ControlAddressInterception ==
  Handled /\ IsSetlistRaw(Msg) =>
    ruleIndex = 0 /\ oscSent = <<>> /\ midiSent = <<>>

\* C3 witness: "/setlist/" was handled with a MIDI device open and a rule
\* on "/setlist" in the table
ControlAddressWitness ==
  /\ Handled
  /\ Msg.address = SetlistSlash
  /\ midiOut = "open"
  /\ \E i \in 1..Len(mappings) : mappings[i].osc_in_address = Str(SetlistAddress)

\* the first argument of the most recent recorded /setlist message that
\* carries a numeric first argument, 0 when there is none
RECURSIVE LastNumericSetlist(_)
LastNumericSetlist(log) ==
  IF log = <<>> THEN Int10(0)
  ELSE LET last == log[Len(log)]
       IN  IF last # <<>> /\ last[1].t = "number" THEN last[1]
           ELSE LastNumericSetlist(SubSeq(log, 1, Len(log) - 1))

\* C4: currentSetlist is the first argument of the most recent /setlist
\* message with a numeric first argument, and 0 before any such message
SetlistUpdate == currentSetlist = LastNumericSetlist(setlistLog)

\* C4 witness: two numeric /setlist messages with different values have
\* been handled and currentSetlist holds the second value
SetlistUpdateWitness ==
  /\ Len(setlistLog) = 2
  /\ setlistLog[1] = <<Int10(1)>>
  /\ setlistLog[2] = <<Num(15), Str(<<"x">>)>>
  /\ Msg.address = SetlistSlash
  /\ currentSetlist = Num(15)

InvalidSetlistArgs(msg) ==
  IsSetlistRaw(msg) /\ (msg.args = <<>> \/ msg.args[1].t # "number")

\* C5: handling a /setlist message whose first argument is a string or
\* missing leaves currentSetlist as it was, sends nothing, does not throw,
\* and leaves the process running
InvalidSetlist ==
  [][ (pc = "running" /\ pc' # "exited" /\ lastMsg' # <<>>
         /\ InvalidSetlistArgs(lastMsg'[1]))
      => (/\ currentSetlist' = currentSetlist
          /\ oscSent' = <<>>
          /\ midiSent' = <<>>
          /\ threw' = FALSE
          /\ pc' = "running") ]_vars

\* C5 witness: after a numeric update, a /setlist message with a string
\* argument was handled and the updated value is still in place
InvalidSetlistWitness ==
  /\ Handled
  /\ InvalidSetlistArgs(Msg)
  /\ Msg.args = <<Str(<<"x">>)>>
  /\ setlistLog = << <<Int10(1)>>, <<Str(<<"x">>)>> >>
  /\ currentSetlist = Int10(1)
  /\ pc = "running"

\* C6: currentSetlist changes only in a step that handles a /setlist
\* message with a numeric first argument, and then to that argument; every
\* other step, whatever rule it resolves and whatever it sends, leaves it
SetlistFrame ==
  [][ currentSetlist' # currentSetlist
      => (/\ pc = "running"
          /\ lastMsg' # <<>>
          /\ IsSetlistRaw(lastMsg'[1])
          /\ lastMsg'[1].args # <<>>
          /\ lastMsg'[1].args[1].t = "number"
          /\ currentSetlist' = lastMsg'[1].args[1]) ]_vars

\* C6 witness: a message on /a resolved a qc_preset rule carrying its own
\* setlist 3, the bank-select was sent with 3, and currentSetlist is still
\* the 1 set earlier
SetlistFrameWitness ==
  /\ Handled
  /\ ~IsSetlistRaw(Msg)
  /\ ruleIndex # 0
  /\ mappings[ruleIndex].setlist = Int10(3)
  /\ Len(midiSent) = 3
  /\ midiSent[2].value = Int10(3)
  /\ currentSetlist = Int10(1)

\* the message that differs from msg by one trailing slash
Twin(msg) ==
  [msg EXCEPT !.address =
     IF EndsWithSlash(msg.address)
     THEN SubSeq(msg.address, 1, Len(msg.address) - 1)
     ELSE Append(msg.address, "/")]

\* C7: the rule acted on carries the received address less exactly one
\* trailing slash (the address itself when it has none), and a message and
\* its twin with one more trailing slash resolve the same rule and send
\* the same messages
NormalizationEquivalence ==
  Handled /\ ~IsSetlistRaw(Msg) =>
    /\ ruleIndex # 0 =>
         (csvFile[ruleIndex].osc_in_address
            \o (IF EndsWithSlash(Msg.address) THEN <<"/">> ELSE <<>>)) = Msg.address
    /\ (\E i \in 1..Len(csvFile) :
          /\ csvFile[i].osc_in_args = <<>>
          /\ Msg.address \in {csvFile[i].osc_in_address,
                              Append(csvFile[i].osc_in_address, "/")}
          /\ ~EndsWithSlash(csvFile[i].osc_in_address))
       => ruleIndex # 0
    /\ ~EndsWithSlash(Twin(Msg).address) \/ ~EndsWithSlash(Msg.address) =>
         LET t == handleOscMessage(Twin(Msg), mappings, currentSetlist,
                                   midiOut \in {"open", "closed"})
         IN  /\ ruleIndex = t.rule
             /\ oscSent = t.osc
             /\ midiSent = t.midi
             /\ threw = t.threw

\* C7 witness: "/a/" resolved the rule on "/a" in row 2 although row 1 is
\* a rule on "/a/"
NormalizationWitness ==
  /\ Handled
  /\ Msg.address = ASlash
  /\ Len(csvFile) = 2
  /\ csvFile[1].osc_in_address = ASlash
  /\ csvFile[2].osc_in_address = A
  /\ ruleIndex = 2
  /\ oscSent # <<>>

\* the qc_preset_id cell of the only row of a preset file
PresetCell == csvFile[1].qc_preset_id

\* a message on /a resolved the only rule of the table with a device open
PresetRuleResolved ==
  /\ Handled
  /\ Len(csvFile) = 1
  /\ ruleIndex = 1
  /\ midiOut \in {"open", "closed"}

\* the identifier written as bank b followed by the i-th letter of A..H,
\* in upper or in lower case
IsPreset(cell, b, i) ==
  cell \in {Append(NatToDigits(b), UpperAH[i]), Append(NatToDigits(b), LowerAH[i])}

\* C8: for bank b in 1..32 and the i-th letter of A..H in either case the
\* program-change number sent is (b - 1) * 8 + (i - 1), which lies in
\* 0..255 and determines b and i; "1A", "1H", "2A" and "32H" give 0, 7, 8
\* and 255
PresetProgramNumber ==
  PresetRuleResolved =>
    /\ \A b \in 1..32, i \in 1..8 :
         IsPreset(PresetCell, b, i) =>
           /\ Len(midiSent) = 3
           /\ midiSent[3].type = "program"
           /\ midiSent[3].number = Int10((b - 1) * 8 + (i - 1))
           /\ midiSent[3].number.n \div 10 \in 0..255
           /\ b = ((midiSent[3].number.n \div 10) \div 8) + 1
           /\ i = ((midiSent[3].number.n \div 10) % 8) + 1
    /\ PresetCell = <<"1", "A">> => midiSent[3].number = Int10(0)
    /\ PresetCell = <<"1", "H">> => midiSent[3].number = Int10(7)
    /\ PresetCell = <<"2", "A">> => midiSent[3].number = Int10(8)
    /\ PresetCell = <<"3", "2", "H">> => midiSent[3].number = Int10(255)

\* C8 witness: the rule with identifier "32h" sent program change 255
PresetProgramWitness ==
  /\ PresetRuleResolved
  /\ PresetCell = <<"3", "2", "h">>
  /\ Len(midiSent) = 3
  /\ midiSent[3].number = Int10(255)

\* digits followed by one letter of A..H in either case
WellFormedPreset(cell) ==
  /\ Len(cell) >= 2
  /\ \A k \in 1..(Len(cell) - 1) : IsDigit(cell[k])
  /\ cell[Len(cell)] \in Letters

\* a well-formed identifier whose bank lies in 1..32
ValidPreset(cell) ==
  /\ WellFormedPreset(cell)
  /\ DigitsToNat(SubSeq(cell, 1, Len(cell) - 1)) \in 1..32

\* C9: a resolved qc_preset rule whose identifier is malformed (digits
\* only included) or whose bank is outside 1..32 sends no MIDI message and
\* the handler completes normally
PresetRejection ==
  PresetRuleResolved /\ ~ValidPreset(PresetCell) =>
    /\ midiSent = <<>>
    /\ threw = FALSE
    /\ pc # "crashed"

\* C10: a valid identifier sends exactly control change 0 value 0, control
\* change 32 value setlist, and the program change, in this order and all
\* on the rule's channel
PresetSequence ==
  PresetRuleResolved /\ ValidPreset(PresetCell) =>
    LET channel == mappings[1].midi_channel
        setlist == IF csvFile[1].setlist = <<>> THEN currentSetlist
                   ELSE mappings[1].setlist
    IN  /\ Len(midiSent) = 3
        /\ midiSent[1] = [MidiNone EXCEPT !.type = "cc", !.controller = Int10(0),
                                          !.value = Int10(0), !.channel = channel]
        /\ midiSent[2] = [MidiNone EXCEPT !.type = "cc", !.controller = Int10(32),
                                          !.value = setlist, !.channel = channel]
        /\ midiSent[3].type = "program"
        /\ midiSent[3].number.t = "number"
        /\ midiSent[3].channel = channel
        /\ midiSent[3].controller = Undefined
        /\ midiSent[3].value = Undefined

\* C10 witness: "2B" on channel 0 with its own setlist 3 sent the three
\* messages while currentSetlist is 2
PresetSequenceWitness ==
  /\ PresetRuleResolved
  /\ PresetCell = <<"2", "B">>
  /\ mappings[1].midi_channel = Int10(0)
  /\ mappings[1].setlist = Int10(3)
  /\ currentSetlist = Int10(2)
  /\ Len(midiSent) = 3
  /\ midiSent[2].value = Int10(3)
  /\ midiSent[3].number = Int10(9)

\* C11: the bank-select LSB of a valid preset carries the rule's own
\* setlist when its setlist cell is filled (0 included), whatever
\* currentSetlist is; otherwise it carries currentSetlist, which is 0 when
\* no /setlist message has been received
SetlistPrecedence ==
  PresetRuleResolved /\ ValidPreset(PresetCell) =>
    /\ Len(midiSent) = 3
    /\ csvFile[1].setlist # <<>> =>
         midiSent[2].value = Int10(DigitsToNat(csvFile[1].setlist))
    /\ csvFile[1].setlist = <<>> =>
         /\ midiSent[2].value = currentSetlist
         /\ setlistLog = <<>> => midiSent[2].value = Int10(0)

\* C11 witness: a rule with setlist 0 sent bank-select LSB 0 while
\* currentSetlist is 2
SetlistPrecedenceWitness ==
  /\ PresetRuleResolved
  /\ csvFile[1].setlist = <<"0">>
  /\ currentSetlist = Int10(2)
  /\ Len(midiSent) = 3
  /\ midiSent[2].value = Int10(0)

\* the message handled last resolved a qc_preset rule without a setlist of
\* its own and sent the preset with a device open
SessionPresetSent ==
  /\ Handled
  /\ ~IsSetlistRaw(Msg)
  /\ ruleIndex # 0
  /\ csvFile[ruleIndex].midi_type = QC_PRESET
  /\ csvFile[ruleIndex].setlist = <<>>
  /\ midiOut \in {"open", "closed"}

\* C12: a preset resolved after the /setlist messages received so far
\* carries the value of the latest numeric one, never an earlier value
ControlAddressOrdering ==
  SessionPresetSent =>
    /\ Len(midiSent) = 3
    /\ midiSent[2].type = "cc"
    /\ midiSent[2].controller = Int10(32)
    /\ midiSent[2].value = LastNumericSetlist(setlistLog)

\* C12 witness: after "/setlist 1" and then "/setlist 1.5" a preset was
\* sent with bank-select LSB 1.5
ControlAddressOrderingWitness ==
  /\ SessionPresetSent
  /\ setlistLog = << <<Int10(1)>>, <<Num(15), Str(<<"x">>)>> >>
  /\ Len(midiSent) = 3
  /\ midiSent[2].value = Num(15)

\* the row of the file behind the rule acted on
ResolvedRow == csvFile[ruleIndex]

\* a message was handled and resolved a rule
RuleResolved == Handled /\ ~IsSetlistRaw(Msg) /\ ruleIndex # 0

\* the MIDI output was open when the message was handled
DeviceOpen == midiOut \in {"open", "closed"}

\* the number written in a cell of digits
CellNumber(cell) == Int10(DigitsToNat(cell))

\* C13: a resolved rule with a filled osc_out_address sends exactly one
\* OSC message, addressed to it; a rule with an empty osc_out_address sends
\* none; neither depends on the MIDI cells of the rule
OscLegActivation ==
  RuleResolved =>
    IF ResolvedRow.osc_out_address # <<>>
    THEN /\ Len(oscSent) = 1
         /\ oscSent[1].address = Str(ResolvedRow.osc_out_address)
    ELSE oscSent = <<>>

\* C13 witness: a cc rule with channel, controller and an OSC output sent
\* one message to /o next to its control change
OscLegActivationWitness ==
  /\ RuleResolved
  /\ ResolvedRow.midi_type = CC
  /\ ResolvedRow.osc_out_address = OutAddress
  /\ Len(midiSent) = 1
  /\ Len(oscSent) = 1
  /\ oscSent[1].address = Str(OutAddress)

\* C16: no MIDI message is sent when no rule is resolved or when the rule
\* leaves midi_type or midi_channel empty, whatever its other MIDI cells
\* hold; channel 0 is a channel: a pc rule on channel 0 sends its program
\* change on channel 0
MidiLegActivation ==
  Handled =>
    /\ ruleIndex = 0 => midiSent = <<>>
    /\ ruleIndex # 0 =>
         /\ (ResolvedRow.midi_type = <<>> \/ ResolvedRow.midi_channel = <<>>)
              => midiSent = <<>>
         /\ (DeviceOpen /\ ResolvedRow.midi_type = PC
               /\ ResolvedRow.midi_channel = <<"0">>)
              => /\ Len(midiSent) = 1
                 /\ midiSent[1].channel = Int10(0)

\* C16 witness: a pc rule on channel 0 sent a program change on channel 0
MidiLegActivationWitness ==
  /\ RuleResolved
  /\ ResolvedRow.midi_type = PC
  /\ ResolvedRow.midi_channel = <<"0">>
  /\ Len(midiSent) = 1
  /\ midiSent[1].type = "program"
  /\ midiSent[1].channel = Int10(0)

\* the MIDI leg of the rule acted on ran: a device was open and the rule
\* fills midi_type and midi_channel
LegActive ==
  /\ RuleResolved
  /\ DeviceOpen
  /\ ResolvedRow.midi_type # <<>>
  /\ ResolvedRow.midi_channel # <<>>

\* the note message a note rule is to send
NoteOf(type, row) ==
  [MidiNone EXCEPT !.type = type,
                   !.note = CellNumber(row.midi_note),
                   !.velocity = CellNumber(row.midi_velocity),
                   !.channel = CellNumber(row.midi_channel)]

\* C17: with the MIDI leg active, a note_on or note_off rule sends exactly
\* its note message when midi_note and midi_velocity are both filled and
\* nothing otherwise, a cc rule sends exactly one control change on its
\* controller and channel when midi_controller is filled and nothing
\* otherwise, and a pc rule sends exactly one program change
MidiRequiredFields ==
  LegActive =>
    LET row == ResolvedRow
        noteFilled == row.midi_note # <<>> /\ row.midi_velocity # <<>>
    IN  /\ row.midi_type = NOTE_ON =>
             midiSent = IF noteFilled THEN <<NoteOf("noteon", row)>> ELSE <<>>
        /\ row.midi_type = NOTE_OFF =>
             midiSent = IF noteFilled THEN <<NoteOf("noteoff", row)>> ELSE <<>>
        /\ row.midi_type = CC =>
             IF row.midi_controller # <<>>
             THEN /\ Len(midiSent) = 1
                  /\ midiSent[1].type = "cc"
                  /\ midiSent[1].controller = CellNumber(row.midi_controller)
                  /\ midiSent[1].channel = CellNumber(row.midi_channel)
             ELSE midiSent = <<>>
        /\ row.midi_type = PC =>
             /\ Len(midiSent) = 1
             /\ midiSent[1].type = "program"
             /\ midiSent[1].channel = CellNumber(row.midi_channel)

\* C17 witness: a note_off rule with note 0 and velocity 9 on channel 0
\* sent its note-off
MidiRequiredFieldsWitness ==
  /\ LegActive
  /\ ResolvedRow.midi_type = NOTE_OFF
  /\ ResolvedRow.midi_note = <<"0">>
  /\ ResolvedRow.midi_velocity = <<"9">>
  /\ ResolvedRow.midi_channel = <<"0">>
  /\ Len(midiSent) = 1
  /\ midiSent[1].type = "noteoff"
  /\ midiSent[1].note = Int10(0)

\* the value a cc or pc rule is to send for the message handled
ValueOf(row, args) ==
  IF row.midi_value # <<>> THEN CellNumber(row.midi_value)
  ELSE IF args # <<>> /\ args[1].t = "number" THEN args[1]
  ELSE Int10(0)

\* C18: the value of the control change of a cc rule and the number of the
\* program change of a pc rule are the rule's midi_value when that cell is
\* filled (0 included, whatever was received), else the first received
\* argument when it is a number, else 0
MidiValueFallback ==
  LegActive =>
    /\ (ResolvedRow.midi_type = CC /\ ResolvedRow.midi_controller # <<>>) =>
         /\ Len(midiSent) = 1
         /\ midiSent[1].value = ValueOf(ResolvedRow, Msg.args)
    /\ ResolvedRow.midi_type = PC =>
         /\ Len(midiSent) = 1
         /\ midiSent[1].number = ValueOf(ResolvedRow, Msg.args)

\* C18 witness: a cc rule with midi_value 0 received the argument 1 and
\* sent the value 0
MidiValueFallbackWitness ==
  /\ LegActive
  /\ ResolvedRow.midi_type = CC
  /\ ResolvedRow.midi_controller # <<>>
  /\ ResolvedRow.midi_value = <<"0">>
  /\ Msg.args = <<Int10(1)>>
  /\ Len(midiSent) = 1
  /\ midiSent[1].value = Int10(0)

\* the received arguments as forwarded: numbers float-tagged, the rest
\* as received
Forwarded(args) ==
  [i \in 1..Len(args) |->
     IF args[i].t = "number" THEN FloatArg(args[i].n) ELSE RawArg(args[i])]

\* the token starts, after an optional sign, with a digit or with a point
\* and a digit
NumericPrefix(token) ==
  LET u == IF token # <<>> /\ token[1] \in {"-", "+"} THEN Tail(token) ELSE token
  IN  /\ u # <<>>
      /\ \/ IsDigit(u[1])
         \/ u[1] = "." /\ Len(u) >= 2 /\ IsDigit(u[2])

ArgumentPassthrough ==
  RuleResolved /\ ResolvedRow.osc_out_address # <<>>
               /\ Trim(ResolvedRow.osc_out_args) = <<>> =>
    /\ Len(oscSent) = 1
    /\ oscSent[1].args = Forwarded(Msg.args)

\* the MIDI messages the message handled would send on the resolved row
\* with its OSC output address emptied
MidiAlone ==
  handleOscMessage(Msg,
                   loadMappings(<<[ResolvedRow EXCEPT !.osc_out_address = <<>>]>>),
                   currentSetlist, TRUE).midi

\* C19: for a rule with an OSC output and an active MIDI leg, whatever the
\* MIDI leg does (sends, skips for a missing note, velocity or controller,
\* rejects a preset identifier or a bank) the OSC message is the one the
\* rule sends on its own, and the MIDI messages are those the rule sends
\* without its OSC output
LegIndependence ==
  LegActive /\ ResolvedRow.osc_out_address # <<>> =>
    /\ oscSent = << [address |-> Str(ResolvedRow.osc_out_address),
                     args |-> Forwarded(Msg.args)] >>
    /\ midiSent = MidiAlone

\* C19 witness: a note_on rule without velocity sent no MIDI message and
\* forwarded 1.5 and x to /o
LegIndependenceWitness ==
  /\ LegActive
  /\ ResolvedRow.midi_type = NOTE_ON
  /\ ResolvedRow.midi_velocity = <<>>
  /\ ResolvedRow.osc_out_address = OutAddress
  /\ Msg.args = <<Num(15), Str(<<"x">>)>>
  /\ midiSent = <<>>
  /\ oscSent = << [address |-> Str(OutAddress),
                   args |-> <<FloatArg(15), RawArg(Str(<<"x">>))>>] >>

\* C20: once started, the dispatcher is never ended by a message: no
\* handling of a message leaves the process terminated
ListenerLiveness == pc # "crashed"

\* a step of loadCsvFile, the refresh the operator can request
RefreshStep == <<csvData', csvError'>> # <<csvData, csvError>>

\* C21: a refresh requested while the dispatcher runs whose load fails
\* leaves the table in effect and the dispatcher as they were; one whose
\* load succeeds puts the newly loaded table in effect
FailedRefreshKeepsTable ==
  [][ (pc = "running" /\ RefreshStep)
      => (/\ pc' = "running"
          /\ IF csvReadable
             THEN mappings' = loadMappings(csvFile)
             ELSE mappings' = mappings) ]_vars

\* the tables that are the complete load of one file
WholeTables == {loadMappings(f) : f \in RefreshFiles}

ResourceRelease ==
  pc = "exited" =>
    /\ oscServer = "closed"
    /\ oscClient = "closed"
    /\ midiOut \in {"closed", "null"}

\* values SetlistState can hold when a message is resolved
SetlistValues == {Int10(0), Int10(1), Num(15), Int10(3)}

\* C24: the rule resolved for a message is the one resolved for the same
\* message on the freshly loaded table, and the one the handler resolves
\* under every value of SetlistState, with or without a MIDI device:
\* neither the setlist nor the messages handled before bear on it
DeterministicResolution ==
  Handled /\ ~IsSetlistRaw(Msg) =>
    /\ ruleIndex = Find(loadMappings(csvFile), Normalize(Msg.address), Msg.args)
    /\ \A s \in SetlistValues, d \in BOOLEAN :
         ruleIndex = handleOscMessage(Msg, mappings, s, d).rule

\* C24 witness: after "/setlist 1" and "/setlist 1.5" the message /a x
\* resolved the first rule, which carries its own setlist 3
DeterministicResolutionWitness ==
  /\ Handled
  /\ Msg = [address |-> A, args |-> <<Str(<<"x">>)>>]
  /\ Len(setlistLog) = 2
  /\ currentSetlist = Num(15)
  /\ csvFile # <<>>
  /\ csvFile[1] = RowPresetOwn
  /\ ruleIndex = 1

\* C25: once the dispatcher runs, no step changes the table in effect,
\* whether the message handled matched a rule, matched none or was a
\* /setlist message; the table only changes at load time, to the whole
\* loaded file
TableImmutability ==
  [][ /\ pc = "running" => mappings' = mappings
      /\ mappings' # mappings =>
           pc = "start" /\ mappings' = loadMappings(csvFile) ]_vars

\* C25 witness: after a /setlist message, a message resolved a preset rule
\* that has no setlist of its own, three MIDI messages were sent, and the
\* table is still the loaded file
TableImmutabilityWitness ==
  /\ Handled
  /\ setlistLog # <<>>
  /\ ruleIndex # 0
  /\ csvFile[ruleIndex].setlist = <<>>
  /\ Len(midiSent) = 3
  /\ mappings # <<>>
  /\ mappings = loadMappings(csvFile)

\* C26: SetlistState is an integer in every reachable state, whatever
\* /setlist messages were received
SetlistInteger ==
  /\ currentSetlist.t = "number"
  /\ currentSetlist.n % 10 = 0

\* C27: a message resolves at most one rule and sends at most one OSC
\* message and 0, 1 or 3 MIDI messages, 3 only for a qc_preset rule with a
\* valid identifier; what is sent is for the resolved rule alone, to its
\* output address and on its channel, however many rules match
SingleHopBound ==
  Handled =>
    /\ Len(oscSent) <= 1
    /\ Len(midiSent) \in {0, 1, 3}
    /\ ruleIndex = 0 => oscSent = <<>> /\ midiSent = <<>>
    /\ ruleIndex # 0 =>
         /\ oscSent # <<>> =>
              oscSent[1].address = Str(ResolvedRow.osc_out_address)
         /\ \A i \in 1..Len(midiSent) :
              midiSent[i].channel = mappings[ruleIndex].midi_channel
         /\ Len(midiSent) = 3 =>
              /\ ResolvedRow.midi_type = QC_PRESET
              /\ ValidPreset(ResolvedRow.qc_preset_id)

\* C27 witness: two rules match, the first is a valid preset with an OSC
\* output: one OSC message and three MIDI messages were sent
SingleHopBoundWitness ==
  /\ Handled
  /\ MatchingRules = {1, 2}
  /\ ruleIndex = 1
  /\ ResolvedRow = RowPreset
  /\ Len(oscSent) = 1
  /\ Len(midiSent) = 3

\* the step handles msg, which is not on the control address and which
\* no rule of the table in effect matches
UnmatchedStep(msg) ==
  /\ pc = "running"
  /\ pc' # "exited"
  /\ lastMsg' = <<msg>>
  /\ ~IsSetlistRaw(msg)
  /\ \A i \in 1..Len(mappings) :
       ~Matches(mappings[i], Normalize(msg.address), msg.args)

\* C28: handling a message that is not on /setlist and that no rule
\* matches sends no OSC and no MIDI message, resolves no rule, and leaves
\* SetlistState, the table and the process as they were
UnmatchedNoOp ==
  [][ \A msg \in ResolveMessages :
        UnmatchedStep(msg) =>
          /\ ruleIndex' = 0
          /\ oscSent' = <<>>
          /\ midiSent' = <<>>
          /\ currentSetlist' = currentSetlist
          /\ mappings' = mappings
          /\ pc' = "running" ]_vars

\* C28 witness: with a device open and a rule on /a that names the
\* argument 1, the message /a x resolved no rule and nothing was sent
UnmatchedNoOpWitness ==
  /\ Handled
  /\ midiOut = "open"
  /\ csvFile = <<RowOne>>
  /\ Msg = [address |-> A, args |-> <<Str(<<"x">>)>>]
  /\ ruleIndex = 0
  /\ oscSent = <<>>
  /\ midiSent = <<>>

\* C29: when no MIDI output was opened, no message sends a MIDI message,
\* a resolved rule with an OSC output still sends its one OSC message, the
\* same as with a device, and SetlistState still follows the /setlist
\* messages
MidiDisabled ==
  midiOut = "null" /\ Handled =>
    /\ midiSent = <<>>
    /\ currentSetlist = LastNumericSetlist(setlistLog)
    /\ oscSent = handleOscMessage(Msg, mappings, currentSetlist, TRUE).osc
    /\ (RuleResolved /\ ResolvedRow.osc_out_address # <<>>) =>
         oscSent = << [address |-> Str(ResolvedRow.osc_out_address),
                       args |-> Forwarded(Msg.args)] >>

\* C29 witness: without a device and after "/setlist 1", a valid preset
\* rule with an OSC output sent its OSC message and no MIDI message
MidiDisabledWitness ==
  /\ midiOut = "null"
  /\ RuleResolved
  /\ ResolvedRow = RowPreset
  /\ setlistLog = << <<Int10(1)>> >>
  /\ currentSetlist = Int10(1)
  /\ Len(oscSent) = 1
  /\ midiSent = <<>>

====
